---- MODULE Spec2Model ----
(***************************************************************************)
(* A model of pipeline-ts: Result values, the pipeline composers (pipe,    *)
(* pipeSync, lazyPipe) and the async helpers sequential, parallel, race    *)
(* and retry.  A promise is modelled by the step at which it settles; the  *)
(* code between two awaits is one atomic action (JavaScript runs it to     *)
(* completion on one thread).                                              *)
(***************************************************************************)
EXTENDS Integers, Sequences, FiniteSets, TLC

(***************************************************************************)
(* Bounds of the model.                                                    *)
(***************************************************************************)
MaxVal == 2
MaxSteps == 3
MaxLazy == 3
NumOps == 3
MaxAttemptsBound == 3
MaxConcurrency == 3
MaxCalls == 3
MaxArgs == 3
MaxChain == 3

(***************************************************************************)
(* State.  Each group belongs to one part of the library; a specification  *)
(* runs one part and leaves the other groups at their initial values.      *)
(***************************************************************************)
VARIABLES
    \* pipe and pipeSync
    fns, arg, pipeline, pc, idx, result, started, inflight, settled,
    syncPipeline, syncPc, syncResult, syncStarted,
    \* lazyPipe
    lazy, lazyOrigin, lazyArg, lazyFirst, lazyLast,
    \* the operations handed to sequential, parallel or race
    outcome, opStarted, opDone,
    \* sequential
    seqPc, seqIdx, seqValues, seqResult,
    \* parallel
    parPc, parResult,
    \* race
    racePc, raceResult,
    \* retry
    options, script, retryPc, attempt, lastError, retryResult, retryLog,
    \* withTimeout
    wtOp, wtValue, timeoutError, wtPc, wtTimer, wtOpState, wtCalls, wtResult, wtOrder,
    \* batch
    concurrency, batchPc, batchIdx, executing, results, chain, awaited, woken, batchResult,
    \* debounce
    fnOutcome, timeoutId, lastResolve, dbTimer, dbPromise, dbFn, dbInWindow,
    \* Validation
    vArgs, vOp, vOut, rIn, vFrom, rOut,
    \* validateObject
    validators, input, objPc, objCalls, objOut,
    \* applyValidation
    fnValidation, apValidation, apPc, apApplied, apOut,
    \* the Result combinators
    cur, combPc, pending, combLog

pipeVars ==
    <<fns, arg, pipeline, pc, idx, result, started, inflight, settled,
      syncPipeline, syncPc, syncResult, syncStarted>>

lazyVars ==
    <<lazy, lazyOrigin, lazyArg, lazyFirst, lazyLast>>

opsVars ==
    <<outcome, opStarted, opDone>>

seqVars ==
    <<seqPc, seqIdx, seqValues, seqResult>>

parVars ==
    <<parPc, parResult>>

raceVars ==
    <<racePc, raceResult>>

retryVars ==
    <<options, script, retryPc, attempt, lastError, retryResult, retryLog>>

timeoutVars ==
    <<wtOp, wtValue, timeoutError, wtPc, wtTimer, wtOpState, wtCalls, wtResult, wtOrder>>

batchVars ==
    <<concurrency, batchPc, batchIdx, executing, results, chain, awaited, woken,
      batchResult>>

debounceVars ==
    <<fnOutcome, timeoutId, lastResolve, dbTimer, dbPromise, dbFn, dbInWindow>>

validationVars ==
    <<vArgs, vOp, vOut, rIn, vFrom, rOut>>

objectVars ==
    <<validators, input, objPc, objCalls, objOut>>

applyVars ==
    <<fnValidation, apValidation, apPc, apApplied, apOut>>

combVars ==
    <<cur, combPc, pending, combLog>>

vars ==
    <<pipeVars, lazyVars, opsVars, seqVars, parVars, raceVars, retryVars,
      timeoutVars,
      batchVars,
      debounceVars,
      validationVars,
      objectVars,
      applyVars,
      combVars>>

notRetry ==
    <<pipeVars, lazyVars, opsVars, seqVars, parVars, raceVars,
      timeoutVars,
      batchVars,
      debounceVars,
      validationVars,
      objectVars,
      applyVars,
      combVars>>

notPipe ==
    <<lazyVars, opsVars, seqVars, parVars, raceVars, retryVars,
      timeoutVars,
      batchVars,
      debounceVars,
      validationVars,
      objectVars,
      applyVars,
      combVars>>

notLazy ==
    <<pipeVars, opsVars, seqVars, parVars, raceVars, retryVars,
      timeoutVars,
      batchVars,
      debounceVars,
      validationVars,
      objectVars,
      applyVars,
      combVars>>

\* What an action of sequential, parallel or race leaves alone besides the
\* operations and its own group.
notSeq ==
    <<pipeVars, lazyVars, parVars, raceVars, retryVars,
      timeoutVars,
      batchVars,
      debounceVars,
      validationVars,
      objectVars,
      applyVars,
      combVars>>

notPar ==
    <<pipeVars, lazyVars, seqVars, raceVars, retryVars,
      timeoutVars,
      batchVars,
      debounceVars,
      validationVars,
      objectVars,
      applyVars,
      combVars>>

notRace ==
    <<pipeVars, lazyVars, seqVars, parVars, retryVars,
      timeoutVars,
      batchVars,
      debounceVars,
      validationVars,
      objectVars,
      applyVars,
      combVars>>

notOps ==
    <<pipeVars, lazyVars, seqVars, parVars, raceVars, retryVars,
      timeoutVars,
      batchVars,
      debounceVars,
      validationVars,
      objectVars,
      applyVars,
      combVars>>

notComb ==
    <<pipeVars, lazyVars, opsVars, seqVars, parVars, raceVars, retryVars, timeoutVars, batchVars, debounceVars, validationVars, objectVars, applyVars>>

notApply ==
    <<pipeVars, lazyVars, opsVars, seqVars, parVars, raceVars, retryVars, timeoutVars, batchVars, debounceVars, validationVars, objectVars,
      combVars>>

notObject ==
    <<pipeVars, lazyVars, opsVars, seqVars, parVars, raceVars, retryVars, timeoutVars, batchVars, debounceVars, validationVars,
      applyVars,
      combVars>>

notValidation ==
    <<pipeVars, lazyVars, opsVars, seqVars, parVars, raceVars, retryVars, timeoutVars, batchVars, debounceVars,
      objectVars,
      applyVars,
      combVars>>

notDebounce ==
    <<pipeVars, lazyVars, opsVars, seqVars, parVars, raceVars, retryVars, timeoutVars, batchVars,
      validationVars,
      objectVars,
      applyVars,
      combVars>>

\* What an action of batch leaves alone besides the operations and its own
\* group.
notBatch ==
    <<pipeVars, lazyVars, seqVars, parVars, raceVars, retryVars, timeoutVars,
      debounceVars,
      validationVars,
      objectVars,
      applyVars,
      combVars>>

notTimeout ==
    <<pipeVars, lazyVars, opsVars, seqVars, parVars, raceVars, retryVars,
      batchVars,
      debounceVars,
      validationVars,
      objectVars,
      applyVars,
      combVars>>

(***************************************************************************)
(* Result: Success holds `value`, Failure holds `error`.                   *)
(***************************************************************************)
success(v) ==
    [isSuccess |-> TRUE, value |-> v]

failure(e) ==
    [isSuccess |-> FALSE, error |-> e]

isSuccess(r) ==
    r.isSuccess

isFailure(r) ==
    ~r.isSuccess

\* The value of a variable that holds no Result yet.
NoResult ==
    [none |-> TRUE]

\* JavaScript's undefined: what reading `.value` of a Failure gives, and what
\* a declared but unassigned `let` holds.
Undefined == -1

\* `result.value`, read without looking at the variant.
ValueOf(r) ==
    IF r.isSuccess THEN r.value ELSE Undefined

(***************************************************************************)
(* Caller-supplied step functions: the inputs of the pipeline composers.   *)
(* Each takes a value and returns a Result.                                *)
(***************************************************************************)
Values ==
    0..MaxVal

StepFns ==
    {"inc", "dbl", "evenOnly", "fail"}

Apply(f, x) ==
    CASE x \notin Values -> failure("NaN")
      [] f = "inc" -> success((x + 1) % (MaxVal + 1))
      [] f = "dbl" -> success((2 * x) % (MaxVal + 1))
      [] f = "evenOnly" -> IF x % 2 = 1 THEN failure("odd") ELSE success(x)
      [] OTHER -> failure("error")

\* Every argument list of at most n step functions, the empty one included.
StepLists(n) ==
    UNION {[1..m -> StepFns] : m \in 0..n}

(***************************************************************************)
(* pipe (async).  fns is the argument list, arg the input of one           *)
(* invocation of the composed function.                                    *)
(***************************************************************************)
PipeInit ==
    /\ fns \in StepLists(MaxSteps)
    /\ arg \in Values
    /\ pipeline = "none"
    /\ pc = "idle"
    /\ idx = 0
    /\ result = NoResult
    /\ started = <<>>
    /\ inflight = {}
    /\ settled = {}
    /\ syncPipeline = "none"
    /\ syncPc = "idle"
    /\ syncResult = NoResult
    /\ syncStarted = <<>>

\* pipe(...fns) and pipeSync(...fns) return the composed function whatever the
\* length of fns: neither body looks at fns before it is invoked.
PipeCompose(fs) ==
    "callable"

PipeSyncCompose(fs) ==
    "callable"

\* `await p` lets the function go on only once p has settled.
Awaited_NoWait(k, done) ==
    TRUE

Awaited(k, done) ==
    k \in done

\* `if (isFailure(result)) break;` of pipe's loop.
PipeBreaks_Never(r) ==
    FALSE

PipeBreaks(r) ==
    isFailure(r)

\* const p = pipe(...fns)
Pipe ==
    /\ pipeline = "none"
    /\ pipeline' = PipeCompose(fns)
    /\ UNCHANGED <<fns, arg, pc, idx, result, started, inflight, settled,
                   syncPipeline, syncPc, syncResult, syncStarted>>
    /\ UNCHANGED notPipe

\* p(arg), up to the first await: fns[0](arg) is called; with no step at all
\* fns[0] is undefined, the call throws a TypeError and the promise rejects.
PipeInvoke ==
    /\ pipeline = "callable"
    /\ pc = "idle"
    /\ IF Len(fns) = 0
       THEN /\ pc' = "rejected"
            /\ UNCHANGED <<idx, started, inflight>>
       ELSE /\ pc' = "awaiting"
            /\ idx' = 1
            /\ started' = <<[step |-> 1, input |-> arg]>>
            /\ inflight' = {1}
    /\ UNCHANGED <<fns, arg, pipeline, result, settled,
                   syncPipeline, syncPc, syncResult, syncStarted>>
    /\ UNCHANGED notPipe

\* The deferred result of a started step resolves.
StepSettle ==
    /\ \E k \in inflight :
          /\ inflight' = inflight \ {k}
          /\ settled' = settled \cup {k}
    /\ UNCHANGED <<fns, arg, pipeline, pc, idx, result, started,
                   syncPipeline, syncPc, syncResult, syncStarted>>
    /\ UNCHANGED notPipe

\* The function resumes after `await`: result is assigned, and the loop either
\* breaks or returns (done) or calls the next step and awaits it.
PipeResume ==
    /\ pc = "awaiting"
    /\ Awaited(idx, settled)
    /\ LET r == Apply(fns[idx], started[idx].input) IN
         /\ result' = r
         /\ IF idx < Len(fns) /\ ~PipeBreaks(r)
            THEN /\ started' = Append(started, [step |-> idx + 1, input |-> ValueOf(r)])
                 /\ inflight' = inflight \cup {idx + 1}
                 /\ idx' = idx + 1
                 /\ pc' = "awaiting"
            ELSE /\ pc' = "done"
                 /\ UNCHANGED <<started, inflight, idx>>
    /\ UNCHANGED <<fns, arg, pipeline, settled,
                   syncPipeline, syncPc, syncResult, syncStarted>>
    /\ UNCHANGED notPipe

(***************************************************************************)
(* pipeSync: the same loop without awaits, so one invocation is one step.  *)
(***************************************************************************)
\* `if (isFailure(result)) break;` of pipeSync's loop.
SyncBreaks_Never(r) ==
    FALSE

SyncBreaks(r) ==
    isFailure(r)

RECURSIVE SyncLoop(_, _, _, _)
\* The for loop over fns.slice(1), about to look at fns[i] with `result` = r.
SyncLoop(fs, i, r, calls) ==
    IF i > Len(fs) \/ SyncBreaks(r)
    THEN [result |-> r, calls |-> calls]
    ELSE SyncLoop(fs, i + 1, Apply(fs[i], ValueOf(r)),
                  Append(calls, [step |-> i, input |-> ValueOf(r)]))

\* The body of the function pipeSync returns, for a non-empty fs.
PipeSyncRun(fs, x) ==
    SyncLoop(fs, 2, Apply(fs[1], x), <<[step |-> 1, input |-> x]>>)

\* const q = pipeSync(...fns)
PipeSync ==
    /\ syncPipeline = "none"
    /\ syncPipeline' = PipeSyncCompose(fns)
    /\ UNCHANGED <<fns, arg, pipeline, pc, idx, result, started, inflight,
                   settled, syncPc, syncResult, syncStarted>>
    /\ UNCHANGED notPipe

\* q(arg): runs to its return, or throws a TypeError when fns is empty.
PipeSyncInvoke ==
    /\ syncPipeline = "callable"
    /\ syncPc = "idle"
    /\ IF Len(fns) = 0
       THEN /\ syncPc' = "threw"
            /\ UNCHANGED <<syncResult, syncStarted>>
       ELSE /\ syncPc' = "done"
            /\ syncResult' = PipeSyncRun(fns, arg).result
            /\ syncStarted' = PipeSyncRun(fns, arg).calls
    /\ UNCHANGED <<fns, arg, pipeline, pc, idx, result, started, inflight,
                   settled, syncPipeline>>
    /\ UNCHANGED notPipe

(***************************************************************************)
(* Properties of pipe and pipeSync.                                        *)
(***************************************************************************)
RECURSIVE ChainInput(_, _, _)
\* What step k receives when every step before it hands its value on.
ChainInput(fs, x, k) ==
    IF k = 1 THEN x ELSE ValueOf(Apply(fs[k - 1], ChainInput(fs, x, k - 1)))

ChainResult(k) ==
    Apply(fns[k], ChainInput(fns, arg, k))

C2_OneStepInFlight ==
    /\ Cardinality(inflight) <= 1
    /\ \A j \in 1..Len(started) : started[j].step = j
    /\ \A j \in 2..Len(started) : (j - 1) \in settled

C2_Witness ==
    /\ Len(started) = 3
    /\ inflight = {3}
    /\ settled = {1, 2}

\* C3: on the same steps and input pipeSync returns the Result the async pipe
\* resolves to and calls the same steps with the same inputs in the same
\* order; it calls no step after a failing one.
C3_PipeSyncMatchesPipe ==
    /\ (pc = "done" /\ syncPc = "done") =>
          /\ syncResult = result
          /\ syncStarted = started
    /\ syncPc = "done" =>
          \A j \in 1..(Len(syncStarted) - 1) :
             isSuccess(Apply(fns[syncStarted[j].step], syncStarted[j].input))

C3_Witness ==
    /\ pc = "done"
    /\ syncPc = "done"
    /\ isFailure(syncResult)
    /\ Len(syncStarted) = 2
    /\ Len(fns) = 3

(***************************************************************************)
(* lazyPipe.  Every call of lazyPipe captures its own rest-parameter array *)
(* in the closures of the object it returns; lazy[i] is the array captured *)
(* by the i-th object created.  lazyOrigin and lazyFirst are history: how  *)
(* an object was made and what its first run gave.                         *)
(***************************************************************************)
LazyInit ==
    /\ lazy = <<>>
    /\ lazyOrigin = <<>>
    /\ lazyArg \in Values
    /\ lazyFirst = <<>>
    /\ lazyLast = <<>>

\* lazyPipe(...fs): the object is returned whatever the length of fs.
LazyPipeCompose(heap, fs) ==
    Append(heap, fs)

\* The plausible slip `fns.push(fn); return lazyPipe(...fns)`.
LazyChain_InPlace(heap, i, f) ==
    Append([heap EXCEPT ![i] = Append(@, f)], Append(heap[i], f))

\* map and flatMap of object i: lazyPipe(...fns, fn) spreads i's array into the
\* arguments of a new call, which captures a new array.
LazyChain(heap, i, f) ==
    Append(heap, Append(heap[i], f))

\* `if (isFailure(result)) break;` of run's loop.
LazyBreaks(r) ==
    isFailure(r)

RECURSIVE LazyLoop(_, _, _, _)
\* for (let i = 1; i < fns.length; i++), with 1-based i here.
LazyLoop(fs, i, r, calls) ==
    IF i > Len(fs) \/ LazyBreaks(r)
    THEN [outcome |-> "done", result |-> r, calls |-> calls]
    ELSE LazyLoop(fs, i + 1, Apply(fs[i], ValueOf(r)),
                  Append(calls, [step |-> i, input |-> ValueOf(r)]))

\* run(x): with an empty array fns[0] is undefined and the call throws.
LazyRunOf(fs, x) ==
    IF Len(fs) = 0
    THEN [outcome |-> "threw", result |-> NoResult, calls |-> <<>>]
    ELSE LazyLoop(fs, 2, Apply(fs[1], x), <<[step |-> 1, input |-> x]>>)

\* The argument lists of the root call: none or one step.  A longer list is
\* the array a chain of map calls builds from a one-step root.
LazyRoots ==
    {<<>>} \cup {<<f>> : f \in StepFns}

\* const L = lazyPipe(...fs)
LazyPipe ==
    /\ lazy = <<>>
    /\ \E fs \in LazyRoots :
          /\ lazy' = LazyPipeCompose(lazy, fs)
          /\ lazyOrigin' = <<[parent |-> 0, fn |-> "none", fns |-> fs]>>
    /\ lazyFirst' = <<NoResult>>
    /\ lazyLast' = <<NoResult>>
    /\ UNCHANGED lazyArg
    /\ UNCHANGED notLazy

\* lazy[i].map(f)
LazyMap ==
    /\ Len(lazy) \in 1..(MaxLazy - 1)
    /\ \E i \in 1..Len(lazy), f \in StepFns :
          /\ lazy' = LazyChain(lazy, i, f)
          /\ lazyOrigin' = Append(lazyOrigin,
                 [parent |-> i, fn |-> f, fns |-> lazy'[Len(lazy')]])
    /\ lazyFirst' = Append(lazyFirst, NoResult)
    /\ lazyLast' = Append(lazyLast, NoResult)
    /\ UNCHANGED lazyArg
    /\ UNCHANGED notLazy

\* lazy[i].flatMap(f)
LazyFlatMap ==
    /\ Len(lazy) \in 1..(MaxLazy - 1)
    /\ \E i \in 1..Len(lazy), f \in StepFns :
          /\ lazy' = LazyChain(lazy, i, f)
          /\ lazyOrigin' = Append(lazyOrigin,
                 [parent |-> i, fn |-> f, fns |-> lazy'[Len(lazy')]])
    /\ lazyFirst' = Append(lazyFirst, NoResult)
    /\ lazyLast' = Append(lazyLast, NoResult)
    /\ UNCHANGED lazyArg
    /\ UNCHANGED notLazy

\* lazy[i].run(lazyArg)
LazyRun ==
    /\ \E i \in 1..Len(lazy) :
          LET out == LazyRunOf(lazy[i], lazyArg) IN
            /\ lazyLast' = [lazyLast EXCEPT ![i] = out]
            /\ lazyFirst' = IF lazyFirst[i] = NoResult
                            THEN [lazyFirst EXCEPT ![i] = out]
                            ELSE lazyFirst
    /\ UNCHANGED <<lazy, lazyOrigin, lazyArg>>
    /\ UNCHANGED notLazy

\* C4: composing zero steps fails at composition time: no pipeline object
\* exists for an empty step list, and no run is the first to fail for it.
C4_ZeroStepsFailAtComposition ==
    \A j \in 1..Len(lazy) :
       /\ Len(lazy[j]) >= 1
       /\ lazyLast[j] = NoResult \/ lazyLast[j].outcome # "threw"

\* C5: map and flatMap return a new pipeline that runs L's steps followed by
\* f and leave L as it was made: a run of L after any map or flatMap on it
\* calls L's original steps and gives what its first run gave.
C5_LazyChainLeavesOriginal ==
    \A j \in 1..Len(lazy) :
       /\ lazy[j] = lazyOrigin[j].fns
       /\ lazyOrigin[j].parent # 0 =>
             lazy[j] = Append(lazyOrigin[lazyOrigin[j].parent].fns, lazyOrigin[j].fn)
       /\ lazyLast[j] # NoResult =>
             /\ lazyLast[j] = lazyFirst[j]
             /\ \A c \in 1..Len(lazyLast[j].calls) :
                   /\ lazyLast[j].calls[c].step = c
                   /\ lazyLast[j].calls[c].input = ChainInput(lazyOrigin[j].fns, lazyArg, c)
             /\ lazyLast[j].outcome = "done" =>
                   lazyLast[j].result =
                      Apply(lazyOrigin[j].fns[Len(lazyLast[j].calls)],
                            ChainInput(lazyOrigin[j].fns, lazyArg, Len(lazyLast[j].calls)))

C5_Witness ==
    /\ Len(lazy) = 3
    /\ Len(lazy[1]) = 1
    /\ lazyOrigin[2].parent = 1
    /\ lazyOrigin[3].parent = 1
    /\ lazyLast[1] # NoResult
    /\ lazyLast[1].outcome = "done"
    /\ lazyLast[3] # NoResult
    /\ Len(lazyLast[3].calls) = 2

(***************************************************************************)
(* Async operations: zero-argument functions returning a promise of a      *)
(* Result.  outcome[i] is how the promise of the i-th argument settles:    *)
(* fulfilled with success(i), fulfilled with failure(i), or rejected.      *)
(* opStarted lists the operations in the order they were called, opDone in *)
(* the order their promises settled.                                       *)
(***************************************************************************)
OpKinds ==
    {"ok", "fail", "reject"}

OpLists(n) ==
    UNION {[1..m -> OpKinds] : m \in 0..n}

Range(s) ==
    {s[i] : i \in DOMAIN s}

\* 1, 2, .., n as a sequence.
Indices(n) ==
    [i \in 1..n |-> i]

OpResult(i) ==
    IF outcome[i] = "ok" THEN success(i) ELSE failure(i)

OpsInit ==
    /\ outcome \in OpLists(NumOps)
    /\ opStarted = <<>>
    /\ opDone = <<>>

OpsIdle ==
    /\ outcome = <<>>
    /\ opStarted = <<>>
    /\ opDone = <<>>

\* The promise of a started operation settles.
OpSettle ==
    /\ \E i \in Range(opStarted) \ Range(opDone) :
          opDone' = Append(opDone, i)
    /\ UNCHANGED <<outcome, opStarted>>
    /\ UNCHANGED notOps

(***************************************************************************)
(* sequential                                                              *)
(***************************************************************************)
SeqInit ==
    /\ seqPc = "idle"
    /\ seqIdx = 0
    /\ seqValues = <<>>
    /\ seqResult = NoResult

\* `if (isFailure(result)) return result;`
SeqReturns_Never(r) ==
    FALSE

SeqReturns(r) ==
    isFailure(r)

\* sequential(...fns) up to its first await: the first operation is called;
\* with no operation the loop is skipped and success([]) returned.
Sequential ==
    /\ seqPc = "idle"
    /\ IF Len(outcome) = 0
       THEN /\ seqPc' = "done"
            /\ seqResult' = success(<<>>)
            /\ UNCHANGED <<seqIdx, opStarted>>
       ELSE /\ seqPc' = "awaiting"
            /\ seqIdx' = 1
            /\ opStarted' = <<1>>
            /\ UNCHANGED seqResult
    /\ UNCHANGED <<seqValues, outcome, opDone>>
    /\ UNCHANGED notSeq

\* The function resumes after `await fn()`: a rejection is thrown out of it;
\* a failure is returned; a value is pushed and the next operation called, or
\* success(values) returned after the last.
SeqResume ==
    /\ seqPc = "awaiting"
    /\ Awaited(seqIdx, Range(opDone))
    /\ IF outcome[seqIdx] = "reject"
       THEN /\ seqPc' = "rejected"
            /\ UNCHANGED <<seqIdx, seqValues, seqResult, opStarted>>
       ELSE LET r == OpResult(seqIdx) IN
            IF SeqReturns(r)
            THEN /\ seqPc' = "done"
                 /\ seqResult' = r
                 /\ UNCHANGED <<seqIdx, seqValues, opStarted>>
            ELSE /\ seqValues' = Append(seqValues, ValueOf(r))
                 /\ IF seqIdx < Len(outcome)
                    THEN /\ seqIdx' = seqIdx + 1
                         /\ opStarted' = Append(opStarted, seqIdx + 1)
                         /\ UNCHANGED <<seqPc, seqResult>>
                    ELSE /\ seqPc' = "done"
                         /\ seqResult' = success(seqValues')
                         /\ UNCHANGED <<seqIdx, opStarted>>
    /\ UNCHANGED <<outcome, opDone>>
    /\ UNCHANGED notSeq

\* The operations that fail, in argument order.
Failing ==
    SelectSeq(Indices(Len(outcome)), LAMBDA i : outcome[i] = "fail")

\* C6: sequential calls operation k+1 only after operation k completed with a
\* success, returns the first failure and calls nothing after it, and returns
\* success of all values in argument order when all succeed.
C6_SequentialStopsAtFirstFailure ==
    /\ \A j \in 1..Len(opStarted) :
          /\ opStarted[j] = j
          /\ j > 1 => (j - 1) \in Range(opDone) /\ outcome[j - 1] = "ok"
    /\ seqPc = "done" =>
          IF \A i \in 1..Len(outcome) : outcome[i] = "ok"
          THEN /\ seqResult = success(Indices(Len(outcome)))
               /\ Len(opStarted) = Len(outcome)
          ELSE /\ seqResult = failure(Len(opStarted))
               /\ outcome[Len(opStarted)] = "fail"

C6_Witness ==
    /\ seqPc = "done"
    /\ outcome = <<"ok", "fail", "ok">>
    /\ opStarted = <<1, 2>>
    /\ seqResult = failure(2)

(***************************************************************************)
(* parallel                                                                *)
(***************************************************************************)
ParInit ==
    /\ parPc = "idle"
    /\ parResult = NoResult

\* The slip of collecting results as they arrive.
PromiseAll_ByCompletion(done) ==
    [k \in 1..Len(done) |-> OpResult(done[k])]

\* What `await Promise.all(promises)` gives once every promise is fulfilled:
\* their values at the promises' positions.
PromiseAll(done) ==
    [i \in 1..Len(done) |-> OpResult(i)]

RECURSIVE Collect(_, _, _, _)
\* The scan `for (const result of results)` filling errors and values.
Collect(rs, i, errors, values) ==
    IF i > Len(rs)
    THEN [errors |-> errors, values |-> values]
    ELSE IF isFailure(rs[i])
         THEN Collect(rs, i + 1, Append(errors, rs[i].error), values)
         ELSE Collect(rs, i + 1, errors, Append(values, rs[i].value))

\* `errors.length > 0 ? failure(errors) : success(values)`
Collected(rs) ==
    LET c == Collect(rs, 1, <<>>, <<>>) IN
      IF Len(c.errors) > 0 THEN failure(c.errors) ELSE success(c.values)

\* parallel(...fns) up to its await: fns.map(fn => fn()) calls every operation.
Parallel ==
    /\ parPc = "idle"
    /\ parPc' = "awaiting"
    /\ opStarted' = Indices(Len(outcome))
    /\ UNCHANGED <<parResult, outcome, opDone>>
    /\ UNCHANGED notPar

\* Promise.all fulfils once every promise has: the scan runs and parallel
\* returns.
ParResume ==
    /\ parPc = "awaiting"
    /\ \A i \in 1..Len(outcome) : i \in Range(opDone) /\ outcome[i] # "reject"
    /\ parPc' = "done"
    /\ parResult' = Collected(PromiseAll(opDone))
    /\ UNCHANGED opsVars
    /\ UNCHANGED notPar

\* Promise.all rejects as soon as one promise has: the await throws.
ParReject ==
    /\ parPc = "awaiting"
    /\ \E i \in Range(opDone) : outcome[i] = "reject"
    /\ parPc' = "rejected"
    /\ UNCHANGED parResult
    /\ UNCHANGED opsVars
    /\ UNCHANGED notPar

\* C7: parallel calls every operation before it waits, returns only when all
\* have completed, and whatever the completion order returns success of all
\* values in argument order, or failure of the failing operations' errors in
\* argument order.
C7_ParallelKeepsArgumentOrder ==
    /\ parPc # "idle" => opStarted = Indices(Len(outcome))
    /\ parPc = "done" =>
          /\ Range(opDone) = 1..Len(outcome)
          /\ parResult = IF Failing = <<>>
                         THEN success(Indices(Len(outcome)))
                         ELSE failure(Failing)

C7_Witness ==
    /\ parPc = "done"
    /\ outcome = <<"fail", "ok", "fail">>
    /\ opDone = <<3, 2, 1>>
    /\ parResult = failure(<<1, 3>>)

(***************************************************************************)
(* race                                                                    *)
(***************************************************************************)
RaceInit ==
    /\ racePc = "idle"
    /\ raceResult = NoResult

Settlement(i) ==
    IF outcome[i] = "reject"
    THEN [status |-> "rejected", reason |-> i]
    ELSE [status |-> "fulfilled", value |-> OpResult(i)]

\* The slip of collecting settlements as they arrive.
PromiseAllSettled_ByCompletion(done) ==
    [k \in 1..Len(done) |-> Settlement(done[k])]

\* What `await Promise.allSettled(promises)` gives once every promise has
\* settled: their settlements at the promises' positions.
PromiseAllSettled(done) ==
    [i \in 1..Len(done) |-> Settlement(i)]

RECURSIVE RaceScan(_, _, _)
\* The scan `for (const result of results)`: the first fulfilled success is
\* returned, the errors of fulfilled failures are pushed, a rejection is
\* skipped; failure(errors) is returned after the last.
RaceScan(rs, i, errors) ==
    IF i > Len(rs)
    THEN failure(errors)
    ELSE IF rs[i].status = "fulfilled" /\ isSuccess(rs[i].value)
         THEN rs[i].value
         ELSE IF rs[i].status = "fulfilled" /\ isFailure(rs[i].value)
              THEN RaceScan(rs, i + 1, Append(errors, rs[i].value.error))
              ELSE RaceScan(rs, i + 1, errors)

\* race(...fns) up to its await: fns.map(fn => fn()) calls every operation.
Race ==
    /\ racePc = "idle"
    /\ racePc' = "awaiting"
    /\ opStarted' = Indices(Len(outcome))
    /\ UNCHANGED <<raceResult, outcome, opDone>>
    /\ UNCHANGED notRace

\* A race that settles with the first success, as Promise.any would.
AllSettled_OrOneSucceeded(done) ==
    \/ \A i \in 1..Len(outcome) : i \in Range(done)
    \/ \E i \in Range(done) : outcome[i] = "ok"

\* The promise of Promise.allSettled(promises) is fulfilled when every
\* promise has settled.
AllSettled(done) ==
    \A i \in 1..Len(outcome) : i \in Range(done)

\* Promise.allSettled fulfils once every promise has settled: the scan runs
\* and race returns.
RaceResume ==
    /\ racePc = "awaiting"
    /\ AllSettled(opDone)
    /\ racePc' = "done"
    /\ raceResult' = RaceScan(PromiseAllSettled(opDone), 1, <<>>)
    /\ UNCHANGED opsVars
    /\ UNCHANGED notRace

\* The operations that completed with a success, in completion order.
SucceededByCompletion ==
    SelectSeq(opDone, LAMBDA i : outcome[i] = "ok")

\* C8: race returns the success that completed first in time, not the one
\* that comes first in argument order.
C8_RaceFirstSuccessInTime ==
    (racePc = "done" /\ SucceededByCompletion # <<>>) =>
       raceResult = success(SucceededByCompletion[1])

C25_RaceWaitsForAll ==
    /\ racePc = "awaiting" => raceResult = NoResult
    /\ racePc = "done" =>
          /\ Range(opDone) = 1..Len(outcome)
          /\ raceResult # NoResult

C25_Witness ==
    /\ racePc = "done"
    /\ outcome = <<"ok", "fail", "ok">>
    /\ opDone = <<1, 3, 2>>
    /\ raceResult = success(1)

(***************************************************************************)
(* retry.  options is the record the caller passes, a field being          *)
(* Undefined (or "absent") when left out; script[k] is how the promise of  *)
(* the k-th invocation of fn settles: success(k), failure(k) or rejected.  *)
(* retryLog is history: the invocations of fn, the onRetry calls and the   *)
(* timers set, in the order they happened.                                 *)
(***************************************************************************)
DefaultMaxAttempts == 3
DefaultDelay == 1000
DefaultBackoffFactor == 2

\* const { maxAttempts = 3, delay = 1000, backoff = 'linear',
\*         backoffFactor = 2, onRetry } = options;
maxAttempts ==
    IF options.maxAttempts = Undefined THEN DefaultMaxAttempts ELSE options.maxAttempts

delay ==
    IF options.delay = Undefined THEN DefaultDelay ELSE options.delay

backoff ==
    IF options.backoff = "absent" THEN "linear" ELSE options.backoff

backoffFactor ==
    IF options.backoffFactor = Undefined THEN DefaultBackoffFactor ELSE options.backoffFactor

onRetry ==
    options.onRetry

ScriptLen ==
    IF MaxAttemptsBound > DefaultMaxAttempts THEN MaxAttemptsBound ELSE DefaultMaxAttempts

\* The values of maxAttempts below one that retry is handed.
BelowOne ==
    {-2, 0}

RetryOptions ==
    [maxAttempts : {Undefined} \cup BelowOne \cup 1..MaxAttemptsBound,
     delay : {Undefined, 10},
     backoff : {"absent", "linear", "exponential"},
     backoffFactor : {Undefined, 3},
     onRetry : BOOLEAN]

RetryInit ==
    /\ options \in RetryOptions
    /\ script \in [1..ScriptLen -> OpKinds]
    /\ retryPc = "idle"
    /\ attempt = 0
    /\ lastError = Undefined
    /\ retryResult = NoResult
    /\ retryLog = <<>>

RetryIdle ==
    /\ options = [maxAttempts |-> Undefined, delay |-> Undefined, backoff |-> "absent",
                  backoffFactor |-> Undefined, onRetry |-> FALSE]
    /\ script = <<>>
    /\ retryPc = "idle"
    /\ attempt = 0
    /\ lastError = Undefined
    /\ retryResult = NoResult
    /\ retryLog = <<>>

RECURSIVE Pow(_, _)
\* Math.pow on the naturals.
Pow(b, e) ==
    IF e = 0 THEN 1 ELSE b * Pow(b, e - 1)

\* The invocations of fn so far.
FnCalls ==
    SelectSeq(retryLog, LAMBDA e : e.ev = "call")

ScriptResult(k) ==
    IF script[k] = "ok" THEN success(k) ELSE failure(k)

\* The off-by-one slip `attempt < maxAttempts` in the loop header.
LoopGoesOn_Strict(a, max) ==
    a < max

\* A loop that tests its condition after the first round only.
LoopGoesOn_AtLeastOnce(a, max) ==
    a <= max \/ a = 1

\* `attempt <= maxAttempts`, the condition of the for loop.
LoopGoesOn(a, max) ==
    a <= max

\* The guard dropped: onRetry and the wait after the last attempt too.
AttemptsRemain_Always(a, max) ==
    a <= max

\* `attempt < maxAttempts`, the guard of the onRetry call and the wait.
AttemptsRemain(a, max) ==
    a < max

\* The exponent taken as `attempt` instead of `attempt - 1`.
WaitTime_FromFactor(a) ==
    IF backoff = "exponential" THEN delay * Pow(backoffFactor, a) ELSE delay * a

\* `backoff === 'exponential' ? delay * Math.pow(backoffFactor, attempt - 1)
\*                            : delay * attempt`
WaitTime(a) ==
    IF backoff = "exponential" THEN delay * Pow(backoffFactor, a - 1) ELSE delay * a

\* The head of the for loop with `attempt` = a: fn is called and awaited, or
\* the loop is left and failure(lastError) returned.
RetryLoop(a, err, log) ==
    IF LoopGoesOn(a, maxAttempts)
    THEN /\ retryPc' = "awaitingFn"
         /\ attempt' = a
         /\ retryLog' = Append(log, [ev |-> "call", n |-> Len(FnCalls) + 1])
         /\ UNCHANGED retryResult
    ELSE /\ retryPc' = "done"
         /\ attempt' = a
         /\ retryResult' = failure(err)
         /\ retryLog' = log

\* retry(fn, options) up to its first await.
Retry ==
    /\ retryPc = "idle"
    /\ RetryLoop(1, lastError, retryLog)
    /\ UNCHANGED <<options, script, lastError>>
    /\ UNCHANGED notRetry

\* The promise of fn() settles and the function resumes: a rejection is
\* thrown out of it, a success returned; a failure is kept in lastError and,
\* with attempts left, onRetry is called and a timer of waitTime awaited,
\* otherwise the loop goes to its next round at once.
RetryFnSettles ==
    /\ retryPc = "awaitingFn"
    /\ LET k == Len(FnCalls) IN
       IF script[k] = "reject"
       THEN /\ retryPc' = "rejected"
            /\ UNCHANGED <<attempt, lastError, retryResult, retryLog>>
       ELSE IF isSuccess(ScriptResult(k))
            THEN /\ retryPc' = "done"
                 /\ retryResult' = ScriptResult(k)
                 /\ UNCHANGED <<attempt, lastError, retryLog>>
            ELSE /\ lastError' = ScriptResult(k).error
                 /\ IF AttemptsRemain(attempt, maxAttempts)
                    THEN /\ retryPc' = "sleeping"
                         /\ retryLog' = retryLog
                               \o (IF onRetry
                                   THEN <<[ev |-> "onRetry", attempt |-> attempt,
                                           error |-> lastError']>>
                                   ELSE <<>>)
                               \o <<[ev |-> "wait", after |-> attempt,
                                     ms |-> WaitTime(attempt)]>>
                         /\ UNCHANGED <<attempt, retryResult>>
                    ELSE RetryLoop(attempt + 1, lastError', retryLog)
    /\ UNCHANGED <<options, script>>
    /\ UNCHANGED notRetry

\* The timer fires: attempt++ and the loop's next round.
RetryWake ==
    /\ retryPc = "sleeping"
    /\ RetryLoop(attempt + 1, lastError, retryLog)
    /\ UNCHANGED <<options, script, lastError>>
    /\ UNCHANGED notRetry

\* fn fails on each of its first maxAttempts invocations.
AlwaysFails ==
    \A k \in 1..maxAttempts : script[k] = "fail"

\* C10 (the state part): never more than maxAttempts invocations, and once
\* retry has returned, exactly maxAttempts of them and the last one's error.
RetryExhausted ==
    (maxAttempts >= 1 /\ AlwaysFails) =>
       /\ Len(FnCalls) <= maxAttempts
       /\ retryPc # "rejected"
       /\ retryPc = "done" =>
             /\ Len(FnCalls) = maxAttempts
             /\ retryResult = failure(maxAttempts)
             /\ ScriptResult(maxAttempts) = retryResult

\* C10: for maxAttempts n >= 1 and an operation that fails every time, retry
\* invokes it exactly n times, terminates, and returns a failure carrying the
\* error of the n-th invocation.
C10_RetryReturnsLastError ==
    /\ []RetryExhausted
    /\ (retryPc # "idle" /\ maxAttempts >= 1 /\ AlwaysFails) ~> (retryPc = "done")

C10_Witness ==
    /\ retryPc = "done"
    /\ maxAttempts = 3
    /\ script = <<"fail", "fail", "fail">>
    /\ Len(FnCalls) = 3
    /\ retryResult = failure(3)

\* C30: retry handed maxAttempts < 1 invokes neither the operation nor
\* onRetry, does not wait, and returns a failure whose error is undefined,
\* an error that no invocation of the operation produced.
C30_NoAttemptUndefinedError ==
    maxAttempts < 1 =>
       /\ retryLog = <<>>
       /\ retryPc \in {"idle", "done"}
       /\ retryPc = "done" =>
             /\ retryResult = failure(Undefined)
             /\ \A k \in 1..ScriptLen : retryResult # ScriptResult(k)

C30_Witness ==
    /\ retryPc = "done"
    /\ options.maxAttempts = 0
    /\ onRetry
    /\ retryLog = <<>>
    /\ retryResult = failure(Undefined)

\* The calls of onRetry so far, and the waits so far.
OnRetryCalls ==
    SelectSeq(retryLog, LAMBDA e : e.ev = "onRetry")

Waits ==
    SelectSeq(retryLog, LAMBDA e : e.ev = "wait")

\* The number of invocations of fn among the first p events.
CallsBefore(p) ==
    Len(SelectSeq(SubSeq(retryLog, 1, p), LAMBDA e : e.ev = "call"))

\* fn fails on its first k-1 invocations and succeeds on the k-th.
FirstSuccessAt(k) ==
    /\ k <= maxAttempts
    /\ script[k] = "ok"
    /\ \A j \in 1..(k - 1) : script[j] = "fail"

\* C11: when the operation first succeeds on invocation k <= maxAttempts,
\* retry returns that success with no further invocation, and onRetry has
\* been called exactly k-1 times, the j-th time with (j, error of invocation
\* j), each call coming after invocation j and before invocation j+1;
\* onRetry is called neither after a success nor after the last attempt
\* allowed by maxAttempts.
C11_OnRetryBetweenAttempts ==
    onRetry =>
       /\ \A p \in 1..Len(retryLog) :
             retryLog[p].ev = "onRetry" =>
                /\ retryLog[p].attempt = CallsBefore(p)
                /\ retryLog[p].attempt < maxAttempts
                /\ script[retryLog[p].attempt] = "fail"
                /\ retryLog[p].error = ScriptResult(retryLog[p].attempt).error
       /\ \A j \in 1..Len(OnRetryCalls) : OnRetryCalls[j].attempt = j
       /\ \A k \in 1..ScriptLen :
             FirstSuccessAt(k) =>
                /\ Len(FnCalls) <= k
                /\ Len(OnRetryCalls) <= k - 1
                /\ retryPc \in {"idle", "awaitingFn", "sleeping", "done"}
                /\ retryPc = "done" =>
                      /\ retryResult = success(k)
                      /\ Len(FnCalls) = k
                      /\ Len(OnRetryCalls) = k - 1
                      /\ retryLog[Len(retryLog)] = [ev |-> "call", n |-> k]

C11_Witness ==
    /\ retryPc = "done"
    /\ onRetry
    /\ maxAttempts = 3
    /\ FirstSuccessAt(3)
    /\ retryResult = success(3)
    /\ OnRetryCalls = <<[ev |-> "onRetry", attempt |-> 1, error |-> 1],
                        [ev |-> "onRetry", attempt |-> 2, error |-> 2]>>

\* C12: after failed attempt a with attempts remaining retry waits delay*a
\* under linear backoff and delay*backoffFactor^(a-1) under exponential
\* backoff; the wait follows the onRetry call for attempt a (when onRetry is
\* given) and precedes invocation a+1, and no wait follows the last attempt.
C12_BackoffWaits ==
    /\ \A p \in 1..Len(retryLog) :
          retryLog[p].ev = "wait" =>
             LET a == CallsBefore(p)
             IN  /\ retryLog[p].after = a
                 /\ a < maxAttempts
                 /\ script[a] = "fail"
                 /\ backoff = "linear" => retryLog[p].ms = delay * a
                 /\ backoff = "exponential" =>
                       retryLog[p].ms = delay * backoffFactor ^ (a - 1)
                 /\ retryLog[p - 1] = IF onRetry
                                      THEN [ev |-> "onRetry", attempt |-> a, error |-> a]
                                      ELSE [ev |-> "call", n |-> a]
                 /\ onRetry => retryLog[p - 2] = [ev |-> "call", n |-> a]
                 /\ p < Len(retryLog) => retryLog[p + 1] = [ev |-> "call", n |-> a + 1]
                 /\ p = Len(retryLog) => retryPc = "sleeping"
    /\ \A j \in 1..Len(Waits) : Waits[j].after = j
    /\ (retryPc = "done" /\ isFailure(retryResult) /\ maxAttempts >= 1) =>
          Len(Waits) = maxAttempts - 1
    /\ (retryPc = "done" /\ isSuccess(retryResult)) =>
          Len(Waits) = Len(FnCalls) - 1

C12_Witness ==
    /\ retryPc = "awaitingFn"
    /\ attempt = 3
    /\ backoff = "exponential"
    /\ delay = 10
    /\ backoffFactor = 3
    /\ onRetry
    /\ Waits = <<[ev |-> "wait", after |-> 1, ms |-> 10],
                 [ev |-> "wait", after |-> 2, ms |-> 30]>>

(***************************************************************************)
(* withTimeout(fn, ms, timeoutError): a timer of ms whose callback         *)
(* resolves a promise with failure(timeoutError), raced against fn().      *)
(* wtOp is what fn does: resolve with success(wtValue) or failure(wtValue),*)
(* reject, or never settle.  wtOrder lists the two promises in the order   *)
(* in which they settled.                                                  *)
(***************************************************************************)
TimeoutOps ==
    {"ok", "fail", "reject", "never"}

TimeoutInit ==
    /\ wtOp \in TimeoutOps
    /\ wtValue \in Values
    /\ timeoutError \in Values
    /\ wtPc = "idle"
    /\ wtTimer = "unset"
    /\ wtOpState = "notCalled"
    /\ wtCalls = 0
    /\ wtResult = NoResult
    /\ wtOrder = <<>>

TimeoutIdle ==
    /\ wtOp = "never"
    /\ wtValue = 0
    /\ timeoutError = 0
    /\ wtPc = "idle"
    /\ wtTimer = "unset"
    /\ wtOpState = "notCalled"
    /\ wtCalls = 0
    /\ wtResult = NoResult
    /\ wtOrder = <<>>

\* The Result fn's promise resolves with.
TimeoutOpResult ==
    IF wtOp = "ok" THEN success(wtValue) ELSE failure(wtValue)

\* The timer's callback resolving with success by mistake.
TimeoutValue_Success(e) ==
    success(e)

\* `resolve(failure(timeoutError))`, the timer's callback.
TimeoutValue(e) ==
    failure(e)

\* A promise that a later settlement settles again.
RaceSettles_Again(p) ==
    p \in {"racing", "done", "rejected"}

\* Promise.race settles with the first of its promises to settle, and a
\* settled promise stays as it is.
RaceSettles(p) ==
    p = "racing"

\* withTimeout(fn, ms, timeoutError): the timer is set, fn is invoked, and
\* the promise of Promise.race returned.
WithTimeout ==
    /\ wtPc = "idle"
    /\ wtTimer' = "set"
    /\ wtOpState' = "running"
    /\ wtCalls' = wtCalls + 1
    /\ wtPc' = "racing"
    /\ UNCHANGED <<wtOp, wtValue, timeoutError, wtResult, wtOrder>>
    /\ UNCHANGED notTimeout

\* fn's promise settles, before or after the timer.
TimeoutOpSettles ==
    /\ wtOpState = "running"
    /\ wtOp # "never"
    /\ wtOpState' = "settled"
    /\ wtOrder' = Append(wtOrder, "op")
    /\ IF RaceSettles(wtPc)
       THEN IF wtOp = "reject"
            THEN wtPc' = "rejected" /\ wtResult' = NoResult
            ELSE wtPc' = "done" /\ wtResult' = TimeoutOpResult
       ELSE UNCHANGED <<wtPc, wtResult>>
    /\ UNCHANGED <<wtOp, wtValue, timeoutError, wtTimer, wtCalls>>
    /\ UNCHANGED notTimeout

\* The timer of ms fires, before or after fn's promise settles; nothing
\* clears it and its callback does not touch fn.
TimerFires ==
    /\ wtTimer = "set"
    /\ wtTimer' = "fired"
    /\ wtOrder' = Append(wtOrder, "timer")
    /\ IF RaceSettles(wtPc)
       THEN wtPc' = "done" /\ wtResult' = TimeoutValue(timeoutError)
       ELSE UNCHANGED <<wtPc, wtResult>>
    /\ UNCHANGED <<wtOp, wtValue, timeoutError, wtOpState, wtCalls>>
    /\ UNCHANGED notTimeout

\* The timer elapsed before fn completed, or fn completed before the timer.
TimerFirst ==
    wtOrder # <<>> /\ wtOrder[1] = "timer"

OpFirst ==
    wtOrder # <<>> /\ wtOrder[1] = "op"

\* C13 (the state part): the returned promise is settled as soon as either
\* promise is, with the timeout failure when the timer came first and with
\* fn's own result when fn came first.
TimeoutReturns ==
    /\ TimerFirst => wtPc = "done" /\ wtResult = failure(timeoutError)
    /\ (OpFirst /\ wtOp = "ok") => wtPc = "done" /\ wtResult = success(wtValue)
    /\ (OpFirst /\ wtOp = "fail") => wtPc = "done" /\ wtResult = failure(wtValue)
    /\ wtOrder = <<>> => wtPc \in {"idle", "racing"}

\* C13: withTimeout returns failure(timeoutError) whenever the timer elapses
\* before fn completes, also when fn never completes, and fn's own result,
\* success or failure, when fn completes first; every call returns.
C13_TimeoutOrOwnResult ==
    /\ []TimeoutReturns
    /\ (wtPc = "racing") ~> (wtPc \in {"done", "rejected"})
    /\ (wtPc = "racing" /\ wtOp = "never") ~> (wtPc = "done" /\ wtResult = failure(timeoutError))

C13_Witness ==
    /\ wtOp = "never"
    /\ wtPc = "done"
    /\ wtTimer = "fired"
    /\ wtOpState = "running"
    /\ timeoutError = 2
    /\ wtResult = failure(2)

\* What withTimeout has returned is not changed by a later step.
ReturnedStays ==
    wtPc \in {"done", "rejected"} => (wtPc' = wtPc /\ wtResult' = wtResult)

\* C14: fn is invoked exactly once and never cancelled: it completes after
\* the timeout failure was returned, and neither its late result nor a late
\* timer expiry changes the value already returned.
C14_OneInvocationNoCancel ==
    /\ [](wtCalls = IF wtPc = "idle" THEN 0 ELSE 1)
    /\ [][ReturnedStays]_vars
    /\ (wtOpState = "running" /\ wtOp # "never") ~> (wtOpState = "settled")
    /\ (wtTimer = "set") ~> (wtTimer = "fired")

C14_Witness ==
    /\ wtOrder = <<"timer", "op">>
    /\ wtOp = "ok"
    /\ wtValue = 1
    /\ timeoutError = 2
    /\ wtOpState = "settled"
    /\ wtPc = "done"
    /\ wtResult = failure(2)

C14_WitnessOpWins ==
    /\ wtOrder = <<"op", "timer">>
    /\ wtOp = "ok"
    /\ wtValue = 1
    /\ wtPc = "done"
    /\ wtResult = success(1)

(***************************************************************************)
(* batch(fns, concurrency): the loop starts the operations in list order,  *)
(* keeps the promise of each one's `.then` chain in `executing`, and waits *)
(* for Promise.race(executing) whenever executing.size >= concurrency;     *)
(* after the loop it waits for Promise.all(executing) and scans `results`. *)
(* chain[i] is how far the chain of operation i has run; awaited is the    *)
(* set handed to Promise.race or Promise.all and woken what has become of  *)
(* that promise.                                                           *)
(***************************************************************************)
BatchInit ==
    /\ concurrency \in 1..MaxConcurrency
    /\ batchPc = "idle"
    /\ batchIdx = 0
    /\ executing = {}
    /\ results = <<>>
    /\ chain = <<>>
    /\ awaited = {}
    /\ woken = "pending"
    /\ batchResult = NoResult

BatchIdle ==
    /\ concurrency = 1
    /\ batchPc = "idle"
    /\ batchIdx = 0
    /\ executing = {}
    /\ results = <<>>
    /\ chain = <<>>
    /\ awaited = {}
    /\ woken = "pending"
    /\ batchResult = NoResult

\* The off-by-one slip `executing.size > concurrency`.
BatchMustWait_Above(size, c) ==
    size > c

\* `if (executing.size >= concurrency)`
BatchMustWait(size, c) ==
    size >= c

\* The first index of rs that holds nothing yet.
FirstHole(rs) ==
    CHOOSE j \in 1..Len(rs) : rs[j] = NoResult /\ \A k \in 1..(j - 1) : rs[k] # NoResult

\* `results.push(result)`: the results kept in completion order.
BatchStore_Push(rs, i, r) ==
    [rs EXCEPT ![FirstHole(rs)] = r]

\* `results[i] = result`
BatchStore(rs, i, r) ==
    [rs EXCEPT ![i] = r]

\* The operations whose promise has rejected: their chains reject with them
\* and are never deleted from `executing`.
BatchRejected(done) ==
    {i \in Range(done) : outcome[i] = "reject"}

\* What becomes at once of Promise.race(E) or Promise.all(E): rejected when
\* a promise of E already is, fulfilled for Promise.all of nothing.
BatchAwait(p, E, done) ==
    IF E \cap BatchRejected(done) # {} THEN "rejected"
    ELSE IF p = "awaitAll" /\ E = {} THEN "resolved"
    ELSE "pending"

RECURSIVE BatchRun(_, _, _)
\* The for loop from index i on with `executing` = E, up to its next await:
\* fns[i]() is called and its chain added to E, and the loop goes on while
\* E stays below the limit; past the last operation comes Promise.all.
BatchRun(i, E, startedNow) ==
    IF i > Len(outcome)
    THEN [pc |-> "awaitAll", idx |-> i, ex |-> E, startedNow |-> startedNow]
    ELSE IF BatchMustWait(Cardinality(E \cup {i}), concurrency)
         THEN [pc |-> "awaitRace", idx |-> i, ex |-> E \cup {i},
               startedNow |-> Append(startedNow, i)]
         ELSE BatchRun(i + 1, E \cup {i}, Append(startedNow, i))

\* The function runs from loop index i to its next await.
BatchGoesOn(i) ==
    LET r == BatchRun(i, executing, <<>>) IN
      /\ batchPc' = r.pc
      /\ batchIdx' = r.idx
      /\ executing' = r.ex
      /\ opStarted' = opStarted \o r.startedNow
      /\ awaited' = r.ex
      /\ woken' = BatchAwait(r.pc, r.ex, opDone)

\* batch(fns, concurrency) up to its first await.
Batch ==
    /\ batchPc = "idle"
    /\ results' = [i \in 1..Len(outcome) |-> NoResult]
    /\ chain' = [i \in 1..Len(outcome) |-> "waiting"]
    /\ BatchGoesOn(1)
    /\ UNCHANGED <<concurrency, batchResult, outcome, opDone>>
    /\ UNCHANGED notBatch

\* The promise of a started operation settles; a rejection rejects its chain
\* and with it the promise batch is waiting for.
BatchOpSettles ==
    /\ batchPc # "idle"
    /\ \E i \in Range(opStarted) \ Range(opDone) :
          /\ opDone' = Append(opDone, i)
          /\ woken' = IF /\ outcome[i] = "reject"
                         /\ i \in awaited
                         /\ woken = "pending"
                         /\ batchPc \in {"awaitRace", "awaitAll"}
                      THEN "rejected"
                      ELSE woken
    /\ UNCHANGED <<concurrency, batchPc, batchIdx, executing, results, chain, awaited,
                   batchResult, outcome, opStarted>>
    /\ UNCHANGED notBatch

\* `.then(result => { results[i] = result; })`
BatchRecord ==
    /\ \E i \in Range(opDone) :
          /\ outcome[i] # "reject"
          /\ chain[i] = "waiting"
          /\ results' = BatchStore(results, i, OpResult(i))
          /\ chain' = [chain EXCEPT ![i] = "recorded"]
    /\ UNCHANGED <<concurrency, batchPc, batchIdx, executing, awaited, woken, batchResult>>
    /\ UNCHANGED opsVars
    /\ UNCHANGED notBatch

\* `.then(() => { executing.delete(promise); })`, after which the chain's
\* promise is fulfilled: Promise.race of a set holding it is fulfilled, and
\* Promise.all once every promise of its set is.
BatchDelete ==
    /\ \E i \in DOMAIN chain :
          /\ chain[i] = "recorded"
          /\ chain' = [chain EXCEPT ![i] = "deleted"]
          /\ executing' = executing \ {i}
          /\ woken' = IF woken = "pending" /\ i \in awaited /\
                         (batchPc = "awaitRace" \/
                            (batchPc = "awaitAll" /\
                               \A j \in awaited \ {i} : chain[j] = "deleted"))
                      THEN "resolved"
                      ELSE woken
    /\ UNCHANGED <<concurrency, batchPc, batchIdx, results, awaited, batchResult>>
    /\ UNCHANGED opsVars
    /\ UNCHANGED notBatch

\* `await Promise.race(executing)` is over: i++ and the loop goes on.
BatchResume ==
    /\ batchPc = "awaitRace"
    /\ woken = "resolved"
    /\ BatchGoesOn(batchIdx + 1)
    /\ UNCHANGED <<concurrency, results, chain, batchResult, outcome, opDone>>
    /\ UNCHANGED notBatch

\* `await Promise.all(executing)` is over: the scan of `results`, and the
\* return.
BatchFinish ==
    /\ batchPc = "awaitAll"
    /\ woken = "resolved"
    /\ batchPc' = "done"
    /\ batchResult' = Collected(results)
    /\ UNCHANGED <<concurrency, batchIdx, executing, results, chain, awaited, woken>>
    /\ UNCHANGED opsVars
    /\ UNCHANGED notBatch

\* The awaited promise rejected: the await throws out of batch.
BatchThrow ==
    /\ batchPc \in {"awaitRace", "awaitAll"}
    /\ woken = "rejected"
    /\ batchPc' = "rejected"
    /\ UNCHANGED <<concurrency, batchIdx, executing, results, chain, awaited, woken,
                   batchResult>>
    /\ UNCHANGED opsVars
    /\ UNCHANGED notBatch

\* The operations started and not yet completed.
InFlight ==
    Range(opStarted) \ Range(opDone)

\* C15: for every list of operations, every limit c >= 1 and every order of
\* completion, never more than c operations are in flight during batch.
C15_BatchWithinLimit ==
    Cardinality(InFlight) <= concurrency

C15_Witness ==
    /\ concurrency = 2
    /\ Len(outcome) = 3
    /\ opStarted = <<1, 2, 3>>
    /\ opDone = <<2>>
    /\ InFlight = {1, 3}

\* C16: batch invokes every operation exactly once, returns only after all
\* have completed, and whatever the completion order returns success of all
\* values in list order when none failed, or failure of the failing
\* operations' errors in list order.
C16_BatchKeepsListOrder ==
    /\ \A j \in 1..Len(opStarted) : opStarted[j] = j
    /\ Len(opStarted) <= Len(outcome)
    /\ batchPc = "done" =>
          /\ opStarted = Indices(Len(outcome))
          /\ Range(opDone) = 1..Len(outcome)
          /\ batchResult = IF Failing = <<>>
                           THEN success(Indices(Len(outcome)))
                           ELSE failure(Failing)

C16_Witness ==
    /\ batchPc = "done"
    /\ concurrency = 2
    /\ outcome = <<"fail", "ok", "fail">>
    /\ opDone = <<2, 3, 1>>
    /\ batchResult = failure(<<1, 3>>)

(***************************************************************************)
(* debounce(fn, ms): one debounced function and the calls made to it.      *)
(* Call number c passes c as its argument; dbTimer[c] is the state of the  *)
(* timer it set, dbFn[c] the state of the invocation fn(c) made by that    *)
(* timer's callback, dbPromise[c] what the promise returned to the caller  *)
(* was resolved with.  timeoutId and lastResolve are the two variables of  *)
(* the closure, 0 standing for null and c for the timer or resolver of     *)
(* call c.  dbInWindow[c] tells whether call c was issued while the timer  *)
(* of call c-1 was still pending.                                          *)
(***************************************************************************)
Null ==
    0

\* The error of `failure(new Error('Debounced'))`, apart from every argument.
Debounced ==
    0

DebounceInit ==
    /\ fnOutcome \in [1..MaxCalls -> {"ok", "fail"}]
    /\ timeoutId = Null
    /\ lastResolve = Null
    /\ dbTimer = <<>>
    /\ dbPromise = <<>>
    /\ dbFn = <<>>
    /\ dbInWindow = <<>>

DebounceIdle ==
    /\ fnOutcome = <<>>
    /\ timeoutId = Null
    /\ lastResolve = Null
    /\ dbTimer = <<>>
    /\ dbPromise = <<>>
    /\ dbFn = <<>>
    /\ dbInWindow = <<>>

\* What fn(c) resolves with.
FnResult(c) ==
    IF fnOutcome[c] = "ok" THEN success(c) ELSE failure(c)

\* A promise that a second call of its resolver settles anew.
Resolve_Overwrite(promises, c, v) ==
    [promises EXCEPT ![c] = v]

\* Calling the resolver of promise c: the first call settles the promise, a
\* later one does nothing.
Resolve(promises, c, v) ==
    IF promises[c] = NoResult THEN [promises EXCEPT ![c] = v] ELSE promises

\* clearTimeout(id): a pending timer is cancelled, a fired one is left as
\* it is.
ClearTimeout(timers, id) ==
    IF timers[id] = "pending" THEN [timers EXCEPT ![id] = "cleared"] ELSE timers

\* A call of the debounced function (lines 319-335 up to setTimeout): with
\* timeoutId set, that timer is cleared and the promise behind lastResolve
\* resolved with the Debounced failure; then lastResolve and timeoutId are
\* pointed at this call and its timer is set.
DebouncedCall ==
    /\ Len(dbTimer) < MaxCalls
    /\ LET c == Len(dbTimer) + 1
           timers == IF timeoutId # Null THEN ClearTimeout(dbTimer, timeoutId) ELSE dbTimer
           promises == IF timeoutId # Null /\ lastResolve # Null
                       THEN Resolve(dbPromise, lastResolve, failure(Debounced))
                       ELSE dbPromise
       IN  /\ dbTimer' = Append(timers, "pending")
           /\ dbPromise' = Append(promises, NoResult)
           /\ dbFn' = Append(dbFn, "none")
           /\ dbInWindow' = Append(dbInWindow, c > 1 /\ dbTimer[c - 1] = "pending")
           /\ lastResolve' = c
           /\ timeoutId' = c
    /\ UNCHANGED fnOutcome
    /\ UNCHANGED notDebounce

\* The timer of call c fires: its callback invokes fn(c) and awaits it.
DebounceTimerFires(c) ==
    /\ c \in DOMAIN dbTimer
    /\ dbTimer[c] = "pending"
    /\ dbTimer' = [dbTimer EXCEPT ![c] = "fired"]
    /\ dbFn' = [dbFn EXCEPT ![c] = "running"]
    /\ UNCHANGED <<fnOutcome, timeoutId, lastResolve, dbPromise, dbInWindow>>
    /\ UNCHANGED notDebounce

\* fn(c) resolves and the callback of call c resumes: `resolve(result);
\* timeoutId = null; lastResolve = null;`
DebounceFnSettles(c) ==
    /\ c \in DOMAIN dbFn
    /\ dbFn[c] = "running"
    /\ dbFn' = [dbFn EXCEPT ![c] = "done"]
    /\ dbPromise' = Resolve(dbPromise, c, FnResult(c))
    /\ timeoutId' = Null
    /\ lastResolve' = Null
    /\ UNCHANGED <<fnOutcome, dbTimer, dbInWindow>>
    /\ UNCHANGED notDebounce

\* Call c was superseded inside its burst: call c+1 came while the timer of
\* call c was pending.
Superseded(c) ==
    c + 1 \in DOMAIN dbInWindow /\ dbInWindow[c + 1]

\* C17: in a burst, where each call comes before the delay of the call
\* before it has elapsed, fn is invoked for the last call only and with that
\* call's argument; the promise of every earlier call resolves with the
\* Debounced failure, and the promise of the last call with the result of fn.
C17_BurstInvokesLastOnly ==
    \A c \in DOMAIN dbTimer :
       /\ Superseded(c) => dbFn[c] = "none" /\ dbPromise[c] = failure(Debounced)
       /\ ~Superseded(c) =>
             /\ dbFn[c] # "none" => dbTimer[c] = "fired"
             /\ dbFn[c] = "done" => dbPromise[c] = FnResult(c)
             /\ dbPromise[c] # NoResult => dbPromise[c] = FnResult(c)

\* The same for the calls made while no invocation of fn is running and none
\* has completed: a single burst on a fresh debounced function.
FreshBurst ==
    \A c \in DOMAIN dbTimer : c > 1 => dbInWindow[c]

\* A promise keeps the value it was resolved with.
PromisesKeepValue ==
    \A c \in DOMAIN dbPromise :
       dbPromise[c] # NoResult => dbPromise'[c] = dbPromise[c]

\* C26: for every interleaving of calls, timer expiries and completions of
\* fn, with every invocation of fn resolving and every timer that is not
\* cleared firing, every promise the debounced function returned is
\* eventually resolved, and with one value only: the Debounced failure or
\* the result of fn.
C26_EveryPromiseResolves ==
    /\ \A c \in 1..MaxCalls :
          (c \in DOMAIN dbPromise) ~> (c \in DOMAIN dbPromise /\ dbPromise[c] # NoResult)
    /\ [][PromisesKeepValue]_vars
    /\ [](\A c \in DOMAIN dbPromise :
            dbPromise[c] \in {NoResult, failure(Debounced), FnResult(c)})

C26_Witness ==
    /\ Len(dbPromise) = 3
    /\ dbFn = <<"done", "done", "done">>
    /\ dbPromise[1] = failure(Debounced)
    /\ dbPromise[2] = FnResult(2)
    /\ dbPromise[3] = FnResult(3)

\* C27: for every interleaving, a new call arriving while fn runs for an
\* earlier call included, a call's promise resolves with the Debounced
\* failure only if fn is never invoked with that call's argument, and with
\* the result of fn whenever fn is invoked for it.
C27_DebouncedOnlyIfNeverInvoked ==
    \A c \in DOMAIN dbPromise :
       /\ dbPromise[c] = failure(Debounced) => dbFn[c] = "none"
       /\ dbFn[c] = "done" => dbPromise[c] = FnResult(c)

\* The calls whose timer is pending.
PendingTimers ==
    {c \in DOMAIN dbTimer : dbTimer[c] = "pending"}

\* The most recent of the calls cs.
Latest(cs) ==
    CHOOSE c \in cs : \A d \in cs : d <= c

\* C28: at every moment at most one timer is pending, and timeoutId and
\* lastResolve are both empty or both those of the most recent call whose
\* timer is still pending; the completion of fn does not hide the pending
\* timer of a newer call.
C28_OneTimerOwnedByLatestCall ==
    /\ Cardinality(PendingTimers) <= 1
    /\ IF PendingTimers = {}
       THEN timeoutId = Null /\ lastResolve = Null
       ELSE timeoutId = Latest(PendingTimers) /\ lastResolve = Latest(PendingTimers)

(***************************************************************************)
(* Validation: a Result whose failure holds an array of errors.  invalid   *)
(* and fromResult look at their argument with Array.isArray, so the values *)
(* of this part carry their kind: an atom or an array of values.           *)
(* vArgs are the validations built by valid and invalid, vOut what combine *)
(* or sequence (vOp) returned for them; rIn is a Result, vFrom the value   *)
(* of fromResult(rIn) and rOut that of toResult(vFrom).  A behaviour is    *)
(* one use of the library: arguments built and combined, or one Result     *)
(* converted and converted back.                                           *)
(***************************************************************************)
Atom(n) ==
    [kind |-> "atom", v |-> n]

Arr(s) ==
    [kind |-> "array", items |-> s]

\* Array.isArray
IsArray(x) ==
    x.kind = "array"

\* The single errors of the model, "error1" and "error2" of the tests, and
\* the arrays of them.
ErrorAtoms ==
    {Atom(1), Atom(2)}

ErrorArrays ==
    {Arr(<<>>)} \cup {Arr(<<a>>) : a \in ErrorAtoms}
                \cup {Arr(<<a, b>>) : a \in ErrorAtoms, b \in ErrorAtoms}

\* What invalid may be handed, and what the failure of a Result may hold.
ErrorInputs ==
    ErrorAtoms \cup ErrorArrays

\* `success(value)`
valid(v) ==
    success(v)

\* `failure(Array.isArray(error) ? error : [error])`
invalid(e) ==
    failure(IF IsArray(e) THEN e ELSE Arr(<<e>>))

RECURSIVE CombineLoop(_, _, _, _)
\* The loop of combine: `errors.push(...validation.error)` for a failure,
\* `values.push(validation.value)` for a success.
CombineLoop(vs, i, errors, values) ==
    IF i > Len(vs)
    THEN [errors |-> errors, values |-> values]
    ELSE IF isFailure(vs[i])
         THEN CombineLoop(vs, i + 1, errors \o vs[i].error.items, values)
         ELSE CombineLoop(vs, i + 1, errors, Append(values, vs[i].value))

\* combine(...validations): `errors.length > 0 ? failure(errors) : success(values)`
combine(vs) ==
    LET c == CombineLoop(vs, 1, <<>>, <<>>) IN
      IF Len(c.errors) > 0 THEN failure(Arr(c.errors)) ELSE success(c.values)

\* sequence(validations): the same loop over an array.
sequence(vs) ==
    LET c == CombineLoop(vs, 1, <<>>, <<>>) IN
      IF Len(c.errors) > 0 THEN failure(Arr(c.errors)) ELSE success(c.values)

\* `isSuccess(result) ? valid(result.value) : invalid(result.error)`
fromResult(r) ==
    IF isSuccess(r) THEN valid(r.value) ELSE invalid(r.error)

\* `validation as Result<T, E[]>`
toResult(v) ==
    v

ValidationInit ==
    /\ vArgs = <<>>
    /\ vOp = "none"
    /\ vOut = NoResult
    /\ rIn = NoResult
    /\ vFrom = NoResult
    /\ rOut = NoResult

\* valid(x) builds one more argument.
Valid ==
    /\ vOp = "none"
    /\ rIn = NoResult
    /\ Len(vArgs) < MaxArgs
    /\ \E x \in Values : vArgs' = Append(vArgs, valid(x))
    /\ UNCHANGED <<vOp, vOut, rIn, vFrom, rOut>>
    /\ UNCHANGED notValidation

\* invalid(e) builds one more argument, from a single error or an array.
Invalid ==
    /\ vOp = "none"
    /\ rIn = NoResult
    /\ Len(vArgs) < MaxArgs
    /\ \E e \in ErrorInputs : vArgs' = Append(vArgs, invalid(e))
    /\ UNCHANGED <<vOp, vOut, rIn, vFrom, rOut>>
    /\ UNCHANGED notValidation

Combine ==
    /\ vOp = "none"
    /\ rIn = NoResult
    /\ vOp' = "combine"
    /\ vOut' = combine(vArgs)
    /\ UNCHANGED <<vArgs, rIn, vFrom, rOut>>
    /\ UNCHANGED notValidation

Sequence ==
    /\ vOp = "none"
    /\ rIn = NoResult
    /\ vOp' = "sequence"
    /\ vOut' = sequence(vArgs)
    /\ UNCHANGED <<vArgs, rIn, vFrom, rOut>>
    /\ UNCHANGED notValidation

\* fromResult(r) for a Result r of any payload.
FromResult ==
    /\ rIn = NoResult
    /\ vArgs = <<>>
    /\ vOp = "none"
    /\ \E r \in {success(x) : x \in Values} \cup {failure(e) : e \in ErrorInputs} :
          /\ rIn' = r
          /\ vFrom' = fromResult(r)
    /\ UNCHANGED <<vArgs, vOp, vOut, rOut>>
    /\ UNCHANGED notValidation

ToResult ==
    /\ vFrom # NoResult
    /\ rOut = NoResult
    /\ rOut' = toResult(vFrom)
    /\ UNCHANGED <<vArgs, vOp, vOut, rIn, vFrom>>
    /\ UNCHANGED notValidation

\* The arguments that are failures, in argument order.
FailingArgs ==
    SelectSeq(vArgs, LAMBDA v : ~v.isSuccess)

RECURSIVE ErrorsOf(_)
\* The error collections of a list of failures, one after the other.
ErrorsOf(fs) ==
    IF fs = <<>> THEN <<>> ELSE Head(fs).error.items \o ErrorsOf(Tail(fs))

\* C18: combine never short-circuits: with every argument a success it
\* returns success of the values in argument order; with any argument a
\* failure it returns a failure whose errors are the concatenation, in
\* argument order, of the error collections of all failing arguments.
C18_CombineAccumulates ==
    vOp = "combine" =>
       IF FailingArgs = <<>>
       THEN vOut = success([i \in 1..Len(vArgs) |-> vArgs[i].value])
       ELSE vOut = failure(Arr(ErrorsOf(FailingArgs)))

\* The validations the library has returned.
Produced ==
    (Range(vArgs) \cup {vOut, vFrom}) \ {NoResult}

\* C19: every Validation failure that invalid, combine, sequence or
\* fromResult returns, invalid being handed a single error or a collection,
\* holds at least one error.
C19_ErrorsNeverEmpty ==
    \A v \in Produced : ~v.isSuccess => Len(v.error.items) >= 1

\* C20: toResult(fromResult(r)) is r for a success r, and for a failure r
\* with error e, of whatever kind, a failure holding the one-element
\* collection [e].
C20_RoundTrip ==
    rOut # NoResult =>
       IF rIn.isSuccess
       THEN rOut = rIn
       ELSE rOut = failure(Arr(<<rIn.error>>))

\* C29: combine and sequence return a success if and only if every one of
\* their n inputs is a success, and a returned success holds exactly n
\* values, also when an input is a failure whose error collection is empty.
C29_SuccessIffAllSucceed ==
    vOp \in {"combine", "sequence"} =>
       /\ vOut.isSuccess <=> (\A i \in 1..Len(vArgs) : vArgs[i].isSuccess)
       /\ vOut.isSuccess => Len(vOut.value) = Len(vArgs)

(***************************************************************************)
(* validateObject(validators)(input).  The validator map is the list of    *)
(* its entries in the order of Object.entries, key k being the k-th; each  *)
(* validator is one of a few functions from a field to a Validation, and   *)
(* input[k] is the field of the input named by key k.  objCalls lists the  *)
(* validator calls made, objOut is what the call returned.                 *)
(***************************************************************************)
ValidatorKinds ==
    {"accept", "double", "reject", "rejectTwo", "rejectNone"}

\* validator(input[key]) for the validator of key k: the field accepted as
\* it is or doubled, or refused with one error, with two, or with the empty
\* array of errors.
Validate(kind, k, x) ==
    CASE kind = "accept" -> valid(x)
      [] kind = "double" -> valid(2 * x)
      [] kind = "reject" -> invalid(Atom(k))
      [] kind = "rejectTwo" -> invalid(Arr(<<Atom(k), Atom(k + MaxArgs)>>))
      [] OTHER -> invalid(Arr(<<>>))

ObjectInit ==
    /\ \E n \in 0..MaxArgs :
          /\ validators \in [1..n -> ValidatorKinds]
          /\ input \in [1..n -> Values]
    /\ objPc = "idle"
    /\ objCalls = <<>>
    /\ objOut = NoResult

ObjectIdle ==
    /\ validators = <<>>
    /\ input = <<>>
    /\ objPc = "idle"
    /\ objCalls = <<>>
    /\ objOut = NoResult

\* `result[key] = validation.value`
SetField(obj, k, v) ==
    [j \in DOMAIN obj \cup {k} |-> IF j = k THEN v ELSE obj[j]]

RECURSIVE ObjectLoop(_, _, _, _)
\* The loop over Object.entries(validators) from entry k on.
ObjectLoop(k, errors, obj, calls) ==
    IF k > Len(validators)
    THEN [errors |-> errors, obj |-> obj, calls |-> calls]
    ELSE LET validation == Validate(validators[k], k, input[k])
             called == Append(calls, [key |-> k, arg |-> input[k]])
         IN  IF isFailure(validation)
             THEN ObjectLoop(k + 1, errors \o validation.error.items, obj, called)
             ELSE ObjectLoop(k + 1, errors, SetField(obj, k, validation.value), called)

\* validateObject(validators)(input), a synchronous call:
\* `errors.length > 0 ? failure(errors) : success(result)`
ValidateObject ==
    /\ objPc = "idle"
    /\ LET r == ObjectLoop(1, <<>>, <<>>, <<>>)
       IN  /\ objCalls' = r.calls
           /\ objOut' = IF Len(r.errors) > 0 THEN failure(Arr(r.errors)) ELSE success(r.obj)
    /\ objPc' = "done"
    /\ UNCHANGED <<validators, input>>
    /\ UNCHANGED notObject

\* The keys whose validator refuses its field, in key order.
FailingKeys ==
    SelectSeq(Indices(Len(validators)),
              LAMBDA k : validators[k] \in {"reject", "rejectTwo", "rejectNone"})

RECURSIVE FieldErrors(_)
\* The errors of the failing fields ks, field after field.
FieldErrors(ks) ==
    IF ks = <<>>
    THEN <<>>
    ELSE Validate(validators[Head(ks)], Head(ks), input[Head(ks)]).error.items
            \o FieldErrors(Tail(ks))

\* C21: validateObject calls every validator exactly once, in key order, on
\* the field of its key, also after a field has failed; it returns success
\* of the record of every key's validated value only if every validator
\* succeeded, and else a failure of every failing field's errors in key
\* order.
C21_ValidateObjectAccumulates ==
    objPc = "done" =>
       /\ objCalls = [k \in 1..Len(validators) |-> [key |-> k, arg |-> input[k]]]
       /\ IF FailingKeys = <<>>
          THEN objOut = success([k \in 1..Len(validators) |->
                                   Validate(validators[k], k, input[k]).value])
          ELSE objOut = failure(Arr(FieldErrors(FailingKeys)))

(***************************************************************************)
(* applyValidation(fnValidation)(validation).  A wrapped function is named *)
(* by a string and applied by CallFn; apApplied lists the applications of  *)
(* the wrapped function the call made, apOut is what the call returned.    *)
(***************************************************************************)
WrappedFns ==
    {"inc", "dbl"}

\* `fnValidation.value(validation.value)`
CallFn(f, x) ==
    IF f = "inc" THEN x + 1 ELSE 2 * x

\* The items of a failure's error array, nothing for a success.
ErrorItems(v) ==
    IF isFailure(v) THEN v.error.items ELSE <<>>

ApplyInit ==
    /\ fnValidation \in {valid(f) : f \in WrappedFns} \cup {invalid(e) : e \in ErrorInputs}
    /\ apValidation \in {valid(x) : x \in Values} \cup {invalid(e) : e \in ErrorInputs}
    /\ apPc = "idle"
    /\ apApplied = <<>>
    /\ apOut = NoResult

ApplyIdle ==
    /\ fnValidation = NoResult
    /\ apValidation = NoResult
    /\ apPc = "idle"
    /\ apApplied = <<>>
    /\ apOut = NoResult

\* The errors of the value pushed before those of the function.
ApplyErrors_ValueFirst(fnV, v) ==
    ErrorItems(v) \o ErrorItems(fnV)

\* `if (isFailure(fnValidation)) errors.push(...fnValidation.error);
\*  if (isFailure(validation)) errors.push(...validation.error);`
ApplyErrors(fnV, v) ==
    ErrorItems(fnV) \o ErrorItems(v)

\* applyValidation(fnV)(v), with the applications of the wrapped function
\* it makes.
applyValidation(fnV, v) ==
    IF isSuccess(fnV) /\ isSuccess(v)
    THEN [out |-> success(CallFn(fnV.value, v.value)),
          applied |-> <<[fn |-> fnV.value, arg |-> v.value]>>]
    ELSE [out |-> failure(Arr(ApplyErrors(fnV, v))), applied |-> <<>>]

\* One call, synchronous.
ApplyValidation ==
    /\ apPc = "idle"
    /\ apPc' = "done"
    /\ apOut' = applyValidation(fnValidation, apValidation).out
    /\ apApplied' = applyValidation(fnValidation, apValidation).applied
    /\ UNCHANGED <<fnValidation, apValidation>>
    /\ UNCHANGED notApply

\* C22: applyValidation(fnV)(v) returns success(f(x)) for fnV = success(f)
\* and v = success(x); otherwise it returns a failure holding fnV's errors,
\* if fnV failed, followed by v's errors, if v failed, and does not apply
\* the wrapped function.
C22_ApplyFunctionSideFirst ==
    apPc = "done" =>
       IF fnValidation.isSuccess /\ apValidation.isSuccess
       THEN /\ apOut = success(IF fnValidation.value = "inc"
                               THEN apValidation.value + 1
                               ELSE 2 * apValidation.value)
            /\ Len(apApplied) = 1
       ELSE /\ ~apOut.isSuccess
            /\ apOut.error.kind = "array"
            /\ apOut.error.items =
                  (IF fnValidation.isSuccess THEN <<>> ELSE fnValidation.error.items)
                     \o (IF apValidation.isSuccess THEN <<>> ELSE apValidation.error.items)
            /\ apApplied = <<>>

C22_Witness ==
    /\ apPc = "done"
    /\ fnValidation = failure(Arr(<<Atom(1)>>))
    /\ apValidation = failure(Arr(<<Atom(2), Atom(1)>>))
    /\ apOut = failure(Arr(<<Atom(1), Atom(2), Atom(1)>>))
    /\ apApplied = <<>>

(***************************************************************************)
(* The Result combinators of pipe-sync.ts, applied one after the other to  *)
(* a Result: cur is the Result the next combinator is handed.  Each        *)
(* combinator is an operator giving the returned Result and the number of  *)
(* times it invoked its callback.  combLog keeps every application: the    *)
(* combinator, its input, its output and its callback invocations.  The    *)
(* async combinators return a promise: `pending` holds the application     *)
(* until the promise settles.                                              *)
(***************************************************************************)
\* Callbacks returning a Result: success(x + 1), or failure(x).
ResultFns ==
    {"next", "refuse"}

CallResultFn(f, x) ==
    IF f = "next" THEN success(x + 1) ELSE failure(x)

\* The predicate handed to filter, and its onFalse.
IsEven(x) ==
    x % 2 = 0

OnFalse(x) ==
    x

\* map applying fn to the error of a failure.
map_OverFailure(f, r) ==
    IF isSuccess(r)
    THEN [out |-> success(CallFn(f, r.value)), calls |-> 1]
    ELSE [out |-> failure(CallFn(f, r.error)), calls |-> 1]

\* `isSuccess(result) ? success(fn(result.value)) : result`
map(f, r) ==
    IF isSuccess(r)
    THEN [out |-> success(CallFn(f, r.value)), calls |-> 1]
    ELSE [out |-> r, calls |-> 0]

\* `isSuccess(result) ? success(await fn(result.value)) : result`
mapAsync(f, r) ==
    IF isSuccess(r)
    THEN [out |-> success(CallFn(f, r.value)), calls |-> 1]
    ELSE [out |-> r, calls |-> 0]

\* `isSuccess(result) ? fn(result.value) : result`
flatMap(f, r) ==
    IF isSuccess(r)
    THEN [out |-> CallResultFn(f, r.value), calls |-> 1]
    ELSE [out |-> r, calls |-> 0]

flatMapAsync(f, r) ==
    IF isSuccess(r)
    THEN [out |-> CallResultFn(f, r.value), calls |-> 1]
    ELSE [out |-> r, calls |-> 0]

\* `if (isSuccess(result)) fn(result.value); return result;`
tap(r) ==
    [out |-> r, calls |-> IF isSuccess(r) THEN 1 ELSE 0]

\* `if (isSuccess(result)) await fn(result.value); return result;`
tapAsync(r) ==
    [out |-> r, calls |-> IF isSuccess(r) THEN 1 ELSE 0]

\* `isSuccess(result) ? predicate(result.value) ? result
\*                     : failure(onFalse(result.value)) : result`
filter(r) ==
    IF isSuccess(r)
    THEN IF IsEven(r.value)
         THEN [out |-> r, calls |-> 1]
         ELSE [out |-> failure(OnFalse(r.value)), calls |-> 2]
    ELSE [out |-> r, calls |-> 0]

\* `isFailure(result) ? failure(fn(result.error)) : result`
mapError(f, r) ==
    IF isFailure(r)
    THEN [out |-> failure(CallFn(f, r.error)), calls |-> 1]
    ELSE [out |-> r, calls |-> 0]

\* recover applying fn to the value of a success.
recover_OverSuccess(f, r) ==
    IF isFailure(r)
    THEN [out |-> success(CallFn(f, r.error)), calls |-> 1]
    ELSE [out |-> success(CallFn(f, r.value)), calls |-> 1]

\* `isFailure(result) ? success(fn(result.error)) : result`
recover(f, r) ==
    IF isFailure(r)
    THEN [out |-> success(CallFn(f, r.error)), calls |-> 1]
    ELSE [out |-> r, calls |-> 0]

\* `isFailure(result) ? fn(result.error) : result`
recoverWith(f, r) ==
    IF isFailure(r)
    THEN [out |-> CallResultFn(f, r.error), calls |-> 1]
    ELSE [out |-> r, calls |-> 0]

\* `isFailure(result) ? fn() : result`, fn taking no argument.
orElse(f, r) ==
    IF isFailure(r)
    THEN [out |-> CallResultFn(f, 0), calls |-> 1]
    ELSE [out |-> r, calls |-> 0]

CombInit ==
    /\ cur \in {success(x) : x \in Values} \cup {failure(e) : e \in Values}
    /\ combPc = "ready"
    /\ pending = NoResult
    /\ combLog = <<>>

CombIdle ==
    /\ cur = NoResult
    /\ combPc = "idle"
    /\ pending = NoResult
    /\ combLog = <<>>

\* A synchronous combinator named c returned a: cur is its output.
Applied(c, a) ==
    /\ combPc = "ready"
    /\ Len(combLog) < MaxChain
    /\ cur' = a.out
    /\ combLog' = Append(combLog, [comb |-> c, input |-> cur, output |-> a.out,
                                   calls |-> a.calls])
    /\ UNCHANGED <<combPc, pending>>
    /\ UNCHANGED notComb

\* An async combinator named c was called: its callback, if it is invoked
\* at all, has been invoked, and the promise it returned is awaited.
Called(c, a) ==
    /\ combPc = "ready"
    /\ Len(combLog) < MaxChain
    /\ combPc' = "awaiting"
    /\ pending' = [comb |-> c, input |-> cur, output |-> a.out, calls |-> a.calls]
    /\ UNCHANGED <<cur, combLog>>
    /\ UNCHANGED notComb

Map ==
    \E f \in WrappedFns : Applied("map", map(f, cur))

FlatMap ==
    \E f \in ResultFns : Applied("flatMap", flatMap(f, cur))

Tap ==
    Applied("tap", tap(cur))

Filter ==
    Applied("filter", filter(cur))

MapError ==
    Applied("mapError", mapError("inc", cur))

Recover ==
    Applied("recover", recover("dbl", cur))

RecoverWith ==
    \E f \in ResultFns : Applied("recoverWith", recoverWith(f, cur))

OrElse ==
    \E f \in ResultFns : Applied("orElse", orElse(f, cur))

MapAsync ==
    Called("mapAsync", mapAsync("dbl", cur))

FlatMapAsync ==
    \E f \in ResultFns : Called("flatMapAsync", flatMapAsync(f, cur))

TapAsync ==
    Called("tapAsync", tapAsync(cur))

\* The promise of an async combinator settles with its Result.
CombSettle ==
    /\ combPc = "awaiting"
    /\ combPc' = "ready"
    /\ cur' = pending.output
    /\ combLog' = Append(combLog, pending)
    /\ pending' = NoResult
    /\ UNCHANGED notComb

\* The combinators that leave a failure alone, and the error-side ones.
SuccessSide ==
    {"map", "mapAsync", "flatMap", "flatMapAsync", "tap", "tapAsync", "filter"}

ErrorSide ==
    {"mapError", "recover", "recoverWith", "orElse"}

\* The applications made so far, the one in progress included.
Applications ==
    IF pending = NoResult THEN combLog ELSE Append(combLog, pending)

\* C23: handed a failure, each of map, mapAsync, flatMap, flatMapAsync, tap,
\* tapAsync and filter returns that failure with its error unchanged and
\* does not invoke its callback; so in a chain of them no callback is
\* invoked after the first failure, which is the final result.
C23_SuccessSideKeepsFailure ==
    \A i \in 1..Len(Applications) :
       \A j \in i..Len(Applications) :
          (/\ ~Applications[i].input.isSuccess
           /\ \A k \in i..j : Applications[k].comb \in SuccessSide)
          => /\ Applications[j].output = Applications[i].input
             /\ Applications[j].calls = 0

C23_Witness ==
    /\ Len(combLog) = 3
    /\ combLog[1].comb = "flatMap"
    /\ combLog[1].input = success(1)
    /\ combLog[1].output = failure(1)
    /\ combLog[2].comb = "mapAsync"
    /\ combLog[3].comb = "filter"
    /\ combLog[3].calls = 0
    /\ cur = failure(1)

\* C24: handed a success, each of mapError, recover, recoverWith and orElse
\* returns that success with the same value and does not invoke its
\* callback.
C24_ErrorSideKeepsSuccess ==
    \A i \in 1..Len(Applications) :
       (Applications[i].input.isSuccess /\ Applications[i].comb \in ErrorSide)
       => /\ Applications[i].output = Applications[i].input
          /\ Applications[i].calls = 0

C24_Witness ==
    /\ Len(combLog) = 3
    /\ combLog[1] = [comb |-> "recover", input |-> failure(2), output |-> success(4),
                     calls |-> 1]
    /\ combLog[2] = [comb |-> "recover", input |-> success(4), output |-> success(4),
                     calls |-> 0]
    /\ combLog[3].comb = "orElse"
    /\ cur = success(4)

(***************************************************************************)
(* Specifications.                                                         *)
(***************************************************************************)
PipeIdle ==
    /\ fns = <<>>
    /\ arg = 0
    /\ pipeline = "none"
    /\ pc = "idle"
    /\ idx = 0
    /\ result = NoResult
    /\ started = <<>>
    /\ inflight = {}
    /\ settled = {}
    /\ syncPipeline = "none"
    /\ syncPc = "idle"
    /\ syncResult = NoResult
    /\ syncStarted = <<>>

LazyIdle ==
    /\ lazy = <<>>
    /\ lazyOrigin = <<>>
    /\ lazyArg = 0
    /\ lazyFirst = <<>>
    /\ lazyLast = <<>>

HelpersIdle ==
    /\ SeqInit
    /\ ParInit
    /\ RaceInit
    /\ RetryIdle

PipeNext ==
    \/ Pipe
    \/ PipeInvoke
    \/ StepSettle
    \/ PipeResume
    \/ PipeSync
    \/ PipeSyncInvoke

Init ==
    PipeInit /\ LazyIdle /\ OpsIdle /\ HelpersIdle /\ TimeoutIdle /\ BatchIdle /\ DebounceIdle /\ ValidationInit /\ ObjectIdle /\ ApplyIdle /\ CombIdle

Next ==
    PipeNext

\* pipe and pipeSync over one argument list and one input.
Spec ==
    Init /\ [][Next]_vars

LazyNext ==
    \/ LazyPipe
    \/ LazyMap
    \/ LazyFlatMap
    \/ LazyRun

\* lazyPipe: one root pipeline, the pipelines chained from it, and their runs.
LazySpecInit ==
    LazyInit /\ PipeIdle /\ OpsIdle /\ HelpersIdle /\ TimeoutIdle /\ BatchIdle /\ DebounceIdle /\ ValidationInit /\ ObjectIdle /\ ApplyIdle /\ CombIdle

SpecLazy ==
    LazySpecInit /\ [][LazyNext]_vars

SeqNext ==
    \/ Sequential
    \/ OpSettle
    \/ SeqResume

\* The operations are chosen, no helper has been called yet.
OpsSpecInit ==
    OpsInit /\ HelpersIdle /\ PipeIdle /\ LazyIdle /\ TimeoutIdle /\ BatchIdle /\ DebounceIdle /\ ValidationInit /\ ObjectIdle /\ ApplyIdle /\ CombIdle

\* One call of sequential on up to NumOps operations.
SpecSeq ==
    OpsSpecInit /\ [][SeqNext]_vars

ParNext ==
    \/ Parallel
    \/ OpSettle
    \/ ParResume
    \/ ParReject

\* One call of parallel on up to NumOps operations.
SpecPar ==
    OpsSpecInit /\ [][ParNext]_vars

RaceNext ==
    \/ Race
    \/ OpSettle
    \/ RaceResume

\* One call of race on up to NumOps operations.
SpecRace ==
    OpsSpecInit /\ [][RaceNext]_vars

RetryNext ==
    \/ Retry
    \/ RetryFnSettles
    \/ RetryWake

\* One call of retry.  The event loop runs every settled promise's
\* continuation and fires every timer that was set.
RetrySpecInit ==
    RetryInit /\ SeqInit /\ ParInit /\ RaceInit /\ OpsIdle /\ PipeIdle /\ LazyIdle /\ TimeoutIdle /\ BatchIdle /\ DebounceIdle /\ ValidationInit /\ ObjectIdle /\ ApplyIdle /\ CombIdle

SpecRetry ==
    /\ RetrySpecInit
    /\ [][RetryNext]_vars
    /\ WF_vars(RetryFnSettles)
    /\ WF_vars(RetryWake)

TimeoutNext ==
    \/ WithTimeout
    \/ TimeoutOpSettles
    \/ TimerFires

TimeoutSpecInit ==
    TimeoutInit /\ HelpersIdle /\ OpsIdle /\ PipeIdle /\ LazyIdle /\ BatchIdle /\ DebounceIdle /\ ValidationInit /\ ObjectIdle /\ ApplyIdle /\ CombIdle

\* One call of withTimeout.  A timer that was set fires, and an operation
\* that completes at all completes eventually.
SpecTimeout ==
    /\ TimeoutSpecInit
    /\ [][TimeoutNext]_vars
    /\ WF_vars(TimerFires)
    /\ WF_vars(TimeoutOpSettles)

BatchNext ==
    \/ Batch
    \/ BatchOpSettles
    \/ BatchRecord
    \/ BatchDelete
    \/ BatchResume
    \/ BatchFinish
    \/ BatchThrow

\* The operations and the limit are chosen, batch has not been called yet.
BatchSpecInit ==
    OpsInit /\ BatchInit /\ HelpersIdle /\ PipeIdle /\ LazyIdle /\ TimeoutIdle /\ DebounceIdle /\ ValidationInit /\ ObjectIdle /\ ApplyIdle /\ CombIdle

\* One call of batch on up to NumOps operations.
SpecBatch ==
    BatchSpecInit /\ [][BatchNext]_vars

DebounceNext ==
    \/ DebouncedCall
    \/ \E c \in 1..MaxCalls : DebounceTimerFires(c)
    \/ \E c \in 1..MaxCalls : DebounceFnSettles(c)

DebounceSpecInit ==
    DebounceInit /\ HelpersIdle /\ OpsIdle /\ PipeIdle /\ LazyIdle /\ TimeoutIdle /\ BatchIdle /\ ValidationInit /\ ObjectIdle /\ ApplyIdle /\ CombIdle

\* Up to MaxCalls calls of one debounced function.  A timer that is not
\* cleared fires, and every invocation of fn resolves.
SpecDebounce ==
    /\ DebounceSpecInit
    /\ [][DebounceNext]_vars
    /\ \A c \in 1..MaxCalls : WF_vars(DebounceTimerFires(c))
    /\ \A c \in 1..MaxCalls : WF_vars(DebounceFnSettles(c))

ValidationNext ==
    \/ Valid
    \/ Invalid
    \/ Combine
    \/ Sequence
    \/ FromResult
    \/ ToResult

ValidationSpecInit ==
    /\ ValidationInit
    /\ HelpersIdle /\ OpsIdle /\ PipeIdle /\ LazyIdle
    /\ TimeoutIdle /\ BatchIdle /\ DebounceIdle /\ ObjectIdle /\ ApplyIdle /\ CombIdle

\* Up to MaxArgs validations built and combined, and one Result converted
\* to a Validation and back.
SpecValidation ==
    ValidationSpecInit /\ [][ValidationNext]_vars

ObjectNext ==
    ValidateObject

ObjectSpecInit ==
    /\ ObjectInit /\ ValidationInit
    /\ HelpersIdle /\ OpsIdle /\ PipeIdle /\ LazyIdle
    /\ TimeoutIdle /\ BatchIdle /\ DebounceIdle /\ ApplyIdle /\ CombIdle

\* One call of validateObject on up to MaxArgs fields.
SpecObject ==
    ObjectSpecInit /\ [][ObjectNext]_vars

ApplyNext ==
    ApplyValidation

ApplySpecInit ==
    /\ ApplyInit /\ ValidationInit /\ ObjectIdle
    /\ HelpersIdle /\ OpsIdle /\ PipeIdle /\ LazyIdle
    /\ TimeoutIdle /\ BatchIdle /\ DebounceIdle /\ CombIdle

\* One call of applyValidation.
SpecApply ==
    ApplySpecInit /\ [][ApplyNext]_vars

CombNext ==
    \/ Map
    \/ MapAsync
    \/ FlatMap
    \/ FlatMapAsync
    \/ Tap
    \/ TapAsync
    \/ Filter
    \/ MapError
    \/ Recover
    \/ RecoverWith
    \/ OrElse
    \/ CombSettle

CombSpecInit ==
    /\ CombInit /\ ValidationInit /\ ObjectIdle /\ ApplyIdle
    /\ HelpersIdle /\ OpsIdle /\ PipeIdle /\ LazyIdle
    /\ TimeoutIdle /\ BatchIdle /\ DebounceIdle

\* A chain of up to MaxChain combinators applied to one Result.
SpecComb ==
    CombSpecInit /\ [][CombNext]_vars
====
